---- MODULE Spec2Model ----
(***************************************************************************)
(* Visitor-log kiosk (src/app.py): the record store with its AUTOINCREMENT *)
(* id sequence, the visitor and admin handlers, the purpose codec, the     *)
(* purpose ratio, the daily series and the checksheet matrix.              *)
(*                                                                         *)
(* Text is modelled as a sequence of atoms.  The atoms "," " " and ":" are *)
(* the characters the code splits, strips and matches on; every other atom *)
(* is an opaque run of characters holding none of them at its ends.  The   *)
(* Korean literals of the source are written in Latin letters:             *)
(*   "gita" is the literal of the "other" purpose (PURPOSE_OPTIONS[6]),    *)
(*   <<"gongyongPC", ",", " ", "printer">> is PURPOSE_OPTIONS[3], whose    *)
(*   source text holds a comma followed by a blank.                        *)
(***************************************************************************)
EXTENDS Integers, Sequences, FiniteSets, TLC

VARIABLES
    db,                   \* the visits table and its sqlite_sequence row
    ok,                   \* gr.State: the admin session is logged in
    pending_delete_id,    \* gr.State: the id a delete was requested for
    ret,                  \* what the last handler call returned
    ever_assigned,        \* history: every id an insert has assigned
    assigned_since_reset, \* history: the ids assigned since the last full reset
    codec,                \* the purpose codec applied to one input
    daily,                \* make_daily_counts applied to one input
    ratio,                \* calc_purpose_ratio applied to one input
    matrix                \* build_checksheet_matrix applied to one input

appVars == <<db, ok, pending_delete_id, ret, ever_assigned, assigned_since_reset>>
pureVars == <<codec, daily, ratio, matrix>>
vars == <<db, ok, pending_delete_id, ret, ever_assigned, assigned_since_reset,
          codec, daily, ratio, matrix>>

----------------------------------------------------------------------------
(* Python's string primitives on sequences of atoms *)

startswith(s, p) == Len(s) >= Len(p) /\ SubSeq(s, 1, Len(p)) = p

RECURSIVE lstrip(_)
lstrip(s) == IF s # <<>> /\ Head(s) = " " THEN lstrip(Tail(s)) ELSE s

RECURSIVE rstrip(_)
rstrip(s) == IF s # <<>> /\ s[Len(s)] = " " THEN rstrip(SubSeq(s, 1, Len(s) - 1)) ELSE s

strip(s) == rstrip(lstrip(s))

RECURSIVE split_acc(_, _, _)
split_acc(s, sep, cur) ==
    IF s = <<>> THEN <<cur>>
    ELSE IF startswith(s, sep)
         THEN <<cur>> \o split_acc(SubSeq(s, Len(sep) + 1, Len(s)), sep, <<>>)
         ELSE split_acc(Tail(s), sep, Append(cur, Head(s)))

\* s.split(sep)
split(s, sep) == split_acc(s, sep, <<>>)

RECURSIVE join(_, _)
\* sep.join(items)
join(items, sep) ==
    IF items = <<>> THEN <<>>
    ELSE IF Len(items) = 1 THEN items[1]
    ELSE items[1] \o sep \o join(Tail(items), sep)

RECURSIVE SelectSeqOf(_, _)
\* [x for x in items if x is not drop]
SelectSeqOf(items, drop) ==
    IF items = <<>> THEN <<>>
    ELSE IF Head(items) = drop THEN SelectSeqOf(Tail(items), drop)
    ELSE <<Head(items)>> \o SelectSeqOf(Tail(items), drop)

Range(s) == {s[i] : i \in DOMAIN s}

----------------------------------------------------------------------------
(* The closed enumerations *)

GITA == <<"gita">>

PURPOSE_OPTIONS ==
    << <<"program">>,
       <<"study">>,
       <<"meeting">>,
       <<"gongyongPC", ",", " ", "printer">>,
       <<"meal">>,
       <<"curious">>,
       GITA >>

----------------------------------------------------------------------------
(* The purpose codec *)

\* an encoder that writes "gita" only together with its text
encodePurpose_only_with_text(purposes, other) ==
    LET plist == SelectSeqOf(purposes, GITA)
        full  == IF GITA \in Range(purposes) /\ other # <<>>
                 THEN Append(plist, GITA \o <<":">> \o other)
                 ELSE plist
    IN  join(full, <<",", " ">>)

\* plist of visitor_submit / admin_update_one, joined with ", "
encodePurpose(purposes, other) ==
    LET plist == SelectSeqOf(purposes, GITA)
        full  == IF GITA \in Range(purposes)
                 THEN Append(plist, IF other # <<>> THEN GITA \o <<":">> \o other ELSE GITA)
                 ELSE plist
    IN  join(full, <<",", " ">>)

\* [x.strip() for x in purpose_str.split(",") if x.strip()]
purpose_items(purpose_str) ==
    LET parts == split(purpose_str, <<",">>)
        RECURSIVE keep(_)
        keep(ps) == IF ps = <<>> THEN <<>>
                    ELSE IF strip(Head(ps)) # <<>>
                         THEN <<strip(Head(ps))>> \o keep(Tail(ps))
                         ELSE keep(Tail(ps))
    IN  keep(parts)

RECURSIVE decode_loop(_, _, _)
decode_loop(items, purposes, other_text) ==
    IF items = <<>> THEN [purposes |-> purposes, other_text |-> other_text]
    ELSE LET it == Head(items) IN
         IF startswith(it, GITA \o <<":">>)
         THEN decode_loop(Tail(items), Append(purposes, GITA),
                          strip(SubSeq(it, Len(GITA) + 2, Len(it))))
         ELSE IF it = GITA
         THEN decode_loop(Tail(items), Append(purposes, GITA), other_text)
         ELSE IF it \in Range(PURPOSE_OPTIONS)
         THEN decode_loop(Tail(items), Append(purposes, it), other_text)
         ELSE decode_loop(Tail(items), purposes, other_text)

\* the purpose parsing of admin_fetch_one
decodePurpose(purpose_str) == decode_loop(purpose_items(purpose_str), <<>>, <<>>)

----------------------------------------------------------------------------
(* The record store: table visits (id INTEGER PRIMARY KEY AUTOINCREMENT)   *)
(* and the row of sqlite_sequence that AUTOINCREMENT keeps for it.         *)
(* db.sqlite_sequence = 0 stands for "no row for visits".  created_at is   *)
(* an audit field no operation reads and is left out of the rows.          *)

MaxId == 2      \* inserts stop once the sequence has reached MaxId

NoneId == 0     \* Python's None where an id is expected (ids start at 1)

EmptyTable == [i \in {} |-> 0]

Max(a, b) == IF a >= b THEN a ELSE b

MaxRowid(visits) ==
    IF DOMAIN visits = {} THEN 0
    ELSE CHOOSE m \in DOMAIN visits : \A i \in DOMAIN visits : i <= m

\* the same table without AUTOINCREMENT: one more than the largest rowid present
next_rowid_no_autoincrement(d) == MaxRowid(d.visits) + 1

\* the rowid AUTOINCREMENT hands out: one more than the largest rowid the table
\* has ever held (the sqlite_sequence row), and than any rowid in the table
next_rowid(d) == Max(d.sqlite_sequence, MaxRowid(d.visits)) + 1

init_db == [visits |-> EmptyTable, sqlite_sequence |-> 0]

insert_visit(d, row) ==
    LET id == next_rowid(d)
    IN  [visits |-> [i \in DOMAIN d.visits \cup {id} |->
                        IF i = id THEN row ELSE d.visits[i]],
         sqlite_sequence |-> id]

\* DELETE FROM visits WHERE id = ?  -> the new db and cur.rowcount
delete_visit(d, record_id) ==
    [db |-> [visits |-> [i \in DOMAIN d.visits \ {record_id} |-> d.visits[i]],
             sqlite_sequence |-> d.sqlite_sequence],
     rowcount |-> IF record_id \in DOMAIN d.visits THEN 1 ELSE 0]

\* an update written as INSERT OR REPLACE: a missing id gets a row
update_visit_upsert(d, record_id, row) ==
    [db |-> [visits |-> [i \in DOMAIN d.visits \cup {record_id} |->
                            IF i = record_id THEN row ELSE d.visits[i]],
             sqlite_sequence |-> d.sqlite_sequence],
     rowcount |-> 1]

\* UPDATE visits SET ... WHERE id = ?  -> the new db and cur.rowcount
update_visit(d, record_id, row) ==
    [db |-> [visits |-> [i \in DOMAIN d.visits |->
                            IF i = record_id THEN row ELSE d.visits[i]],
             sqlite_sequence |-> d.sqlite_sequence],
     rowcount |-> IF record_id \in DOMAIN d.visits THEN 1 ELSE 0]

\* a reset that clears the table and keeps the sequence row
reset_all_data_keep_sequence(d) ==
    [visits |-> EmptyTable, sqlite_sequence |-> d.sqlite_sequence]

\* DELETE FROM visits; DELETE FROM sqlite_sequence WHERE name='visits'
reset_all_data(d) == [visits |-> EmptyTable, sqlite_sequence |-> 0]

----------------------------------------------------------------------------
(* Calendar dates as text: <<year, "-", month, "-", day>>.  strptime with  *)
(* "%Y-%m-%d" takes a month or a day with or without its leading zero;    *)
(* isoformat and strftime always write the leading zero.                   *)

TwoDigit ==
    << "01", "02", "03", "04", "05", "06", "07", "08", "09", "10",
       "11", "12", "13", "14", "15", "16", "17", "18", "19", "20",
       "21", "22", "23", "24", "25", "26", "27", "28", "29", "30", "31" >>

OneDigit == << "1", "2", "3", "4", "5", "6", "7", "8", "9" >>

\* int() of a month or day field; 0 when it is no number
int_of(tok) ==
    IF \E n \in DOMAIN TwoDigit : TwoDigit[n] = tok
    THEN CHOOSE n \in DOMAIN TwoDigit : TwoDigit[n] = tok
    ELSE IF \E n \in DOMAIN OneDigit : OneDigit[n] = tok
    THEN CHOOSE n \in DOMAIN OneDigit : OneDigit[n] = tok
    ELSE 0

\* the days of each month of 2024, the one year of the model's calendar
DaysInMonth == << 31, 29, 31, 30, 31, 30, 31, 31, 30, 31, 30, 31 >>

\* datetime.strptime(s, "%Y-%m-%d") succeeds
strptime_ok(s) ==
    /\ Len(s) = 5
    /\ s[1] = "2024" /\ s[2] = "-" /\ s[4] = "-"
    /\ int_of(s[3]) \in DOMAIN DaysInMonth
    /\ int_of(s[5]) \in 1..DaysInMonth[int_of(s[3])]

RECURSIVE days_before_month(_)
days_before_month(m) == IF m <= 1 THEN 0 ELSE days_before_month(m - 1) + DaysInMonth[m - 1]

\* the day of the year of a parsed date: what date arithmetic runs on
ordinal(s) == days_before_month(int_of(s[3])) + int_of(s[5])

month_of(o) ==
    CHOOSE m \in DOMAIN DaysInMonth :
        days_before_month(m) < o /\ o <= days_before_month(m) + DaysInMonth[m]

\* d.strftime("%Y-%m-%d")
strftime(o) ==
    << "2024", "-", TwoDigit[month_of(o)], "-", TwoDigit[o - days_before_month(month_of(o))] >>

\* date.weekday(): Monday is 0; 2024-01-01 is a Monday
weekday(o) == (o - 1) % 7

\* date.today().isoformat()
TODAY == << "2024", "-", "06", "-", "03" >>

----------------------------------------------------------------------------
(* The handlers.  Every handler call leaves its return value in ret.       *)

None == "None"

GENDER_OPTIONS == << "yeoseong", "namseong", "gita" >>
AGE_OPTIONS == << "19-24", "25-29", "30-34", "35-39" >>
RESIDENCE_OPTIONS == << "dongan-gu", "manan-gu", "bigeoju", "gita" >>
VISIT_TYPE_OPTIONS == << "cheotbangmun", "jaebangmun" >>

ADMIN_PASSWORD == << "1234" >>

ATTEMPTS == 3       \* for i in range(3)
LAST_RETRY == 2     \* ... and i < 2

\* what one insert_visit call of the retry loop meets
Outcomes == { "ok", "locked", "operational", "other" }

\* a retry that never gives up on a locked store
retry_every_locked(e, i) == e = "locked" /\ i < ATTEMPTS

\* except sqlite3.OperationalError as e: if "locked" in str(e).lower() and i < 2
retry(e, i) == e = "locked" /\ i < LAST_RETRY

RECURSIVE submit_loop(_, _, _, _)
\* the for loop of visitor_submit from attempt i on; outcomes[i + 1] is what
\* attempt i meets.  raised = "none" when the loop ends without an exception.
submit_loop(d, row, outcomes, i) ==
    IF i >= ATTEMPTS
    THEN [db |-> d, trace |-> <<>>, raised |-> "none"]
    ELSE LET e == outcomes[i + 1] IN
         IF e = "ok"
         THEN [db |-> insert_visit(d, row), trace |-> <<e>>, raised |-> "none"]
         ELSE IF retry(e, i)
         THEN LET rest == submit_loop(d, row, outcomes, i + 1)
              IN  [db |-> rest.db, trace |-> <<e>> \o rest.trace, raised |-> rest.raised]
         ELSE [db |-> d, trace |-> <<e>>, raised |-> e]

Record(visit_date, gender, age, residence, purpose, visit_type) ==
    [visit_date |-> visit_date, gender |-> gender, age_group |-> age,
     residence |-> residence, purpose |-> purpose, visit_type |-> visit_type]

NewIds(d1, d2) == DOMAIN d2.visits \ DOMAIN d1.visits

History(d1, d2) ==
    /\ ever_assigned' = ever_assigned \cup NewIds(d1, d2)
    /\ assigned_since_reset' = assigned_since_reset \cup NewIds(d1, d2)

visitor_submit(gender, age, residence, purposes, visit_type, other_in, outcomes) ==
    LET other == strip(other_in)
        missing == IF gender = None THEN "gender"
                   ELSE IF age = None THEN "age"
                   ELSE IF residence = None THEN "residence"
                   ELSE IF visit_type = None THEN "visit_type"
                   ELSE IF purposes = <<>> THEN "purposes"
                   ELSE "nothing"
        row == Record(TODAY, gender, age, residence,
                      encodePurpose(purposes, other), visit_type)
        r == submit_loop(db, row, outcomes, 0)
    IN  IF missing # "nothing"
        THEN /\ ret' = [op |-> "visitor_submit", msg |-> "warn", notice |-> missing,
                        trace |-> <<>>]
             /\ UNCHANGED <<db, ok, pending_delete_id, ever_assigned, assigned_since_reset>>
        ELSE /\ MaxRowid(r.db.visits) <= MaxId
             /\ db' = r.db
             /\ History(db, r.db)
             /\ ret' = IF r.raised # "none"
                       THEN [op |-> "visitor_submit", msg |-> "err", notice |-> r.raised,
                             trace |-> r.trace]
                       ELSE [op |-> "visitor_submit", msg |-> "", notice |-> "saved",
                             trace |-> r.trace]
             /\ UNCHANGED <<ok, pending_delete_id>>

do_login(p) ==
    /\ ok' = (strip(p) = ADMIN_PASSWORD)
    /\ ret' = [op |-> "do_login", msg |-> IF strip(p) = ADMIN_PASSWORD THEN "ok" ELSE "wrong"]
    /\ UNCHANGED <<db, pending_delete_id, ever_assigned, assigned_since_reset>>

\* record_id is [valid |-> int(record_id) succeeds, value |-> the int]
admin_update_one(record_id, visit_date_in, gender, age, residence, purposes, visit_type, other_in) ==
    LET visit_date == strip(visit_date_in)
        other_text == strip(other_in)
        purpose_str == encodePurpose(purposes, other_text)
        u == update_visit(db, record_id.value,
                          Record(visit_date, gender, age, residence, purpose_str, visit_type))
        early == IF ~ok THEN "need_login"
                 ELSE IF ~record_id.valid THEN "bad_id"
                 ELSE IF ~strptime_ok(visit_date) THEN "bad_date"
                 ELSE IF purposes = <<>> THEN "no_purpose"
                 ELSE "none"
    IN  IF early # "none"
        THEN /\ ret' = [op |-> "admin_update_one", msg |-> early, rid |-> NoneId,
                        called |-> FALSE, rowcount |-> 0]
             /\ UNCHANGED <<db, ok, pending_delete_id, ever_assigned, assigned_since_reset>>
        ELSE /\ db' = u.db
             /\ History(db, u.db)
             /\ ret' = [op |-> "admin_update_one",
                        msg |-> IF u.rowcount = 0 THEN "warn_update_failed" ELSE "updated",
                        rid |-> record_id.value, called |-> TRUE, rowcount |-> u.rowcount]
             /\ UNCHANGED <<ok, pending_delete_id>>

request_delete(record_id) ==
    LET found == record_id.value \in DOMAIN db.visits     \* not get_visit_by_id(rid).empty
        msg == IF ~ok THEN "need_login"
               ELSE IF ~record_id.valid THEN "bad_id"
               ELSE IF ~found THEN "warn_no_data"
               ELSE "confirm"
    IN  /\ pending_delete_id' = IF msg = "confirm" THEN record_id.value ELSE NoneId
        /\ ret' = [op |-> "request_delete", msg |-> msg,
                   rid |-> IF ok /\ record_id.valid THEN record_id.value ELSE NoneId,
                   visible |-> msg = "confirm"]
        /\ UNCHANGED <<db, ok, ever_assigned, assigned_since_reset>>

\* a confirm_delete that hands the pending id back after it has deleted
confirm_delete_keep_pending ==
    LET del == delete_visit(db, pending_delete_id)
    IN  /\ IF ~ok \/ pending_delete_id = NoneId
           THEN /\ pending_delete_id' = NoneId
                /\ ret' = [op |-> "confirm_delete",
                           msg |-> IF ~ok THEN "need_login" ELSE "warn_request_first",
                           rid |-> pending_delete_id, called |-> FALSE, rowcount |-> 0,
                           visible |-> FALSE]
                /\ UNCHANGED <<db, ever_assigned, assigned_since_reset>>
           ELSE /\ pending_delete_id' = pending_delete_id
                /\ db' = del.db
                /\ History(db, del.db)
                /\ ret' = [op |-> "confirm_delete",
                           msg |-> IF del.rowcount = 0 THEN "warn_delete_failed" ELSE "deleted",
                           rid |-> pending_delete_id, called |-> TRUE,
                           rowcount |-> del.rowcount, visible |-> FALSE]
        /\ UNCHANGED ok

confirm_delete ==
    LET del == delete_visit(db, pending_delete_id)
    IN  /\ pending_delete_id' = NoneId
        /\ IF ~ok \/ pending_delete_id = NoneId
           THEN /\ ret' = [op |-> "confirm_delete",
                           msg |-> IF ~ok THEN "need_login" ELSE "warn_request_first",
                           rid |-> pending_delete_id, called |-> FALSE, rowcount |-> 0,
                           visible |-> FALSE]
                /\ UNCHANGED <<db, ever_assigned, assigned_since_reset>>
           ELSE /\ db' = del.db
                /\ History(db, del.db)
                /\ ret' = [op |-> "confirm_delete",
                           msg |-> IF del.rowcount = 0 THEN "warn_delete_failed" ELSE "deleted",
                           rid |-> pending_delete_id, called |-> TRUE,
                           rowcount |-> del.rowcount, visible |-> FALSE]
        /\ UNCHANGED ok

admin_reset_all(pw1_in, pw2_in) ==
    LET pw1 == strip(pw1_in)
        pw2 == strip(pw2_in)
        msg == IF ~ok THEN "need_login"
               ELSE IF pw1 = <<>> \/ pw2 = <<>> THEN "warn_both"
               ELSE IF pw1 # pw2 THEN "warn_differ"
               ELSE IF pw1 # ADMIN_PASSWORD THEN "wrong_password"
               ELSE "reset_done"
    IN  /\ ret' = [op |-> "admin_reset_all", msg |-> msg]
        /\ IF msg = "reset_done"
           THEN /\ db' = reset_all_data(db)
                /\ ever_assigned' = ever_assigned
                /\ assigned_since_reset' = {}
           ELSE UNCHANGED <<db, ever_assigned, assigned_since_reset>>
        /\ UNCHANGED <<ok, pending_delete_id>>

----------------------------------------------------------------------------
(* make_daily_counts *)

SUNDAY == 6

\* pd.date_range(start=start_dt, end=end_dt, freq="D")
date_range(start_dt, end_dt) == [k \in 1..(end_dt - start_dt + 1) |-> start_dt + k - 1]

RECURSIVE filter_days(_, _)
filter_days(days, keep_sunday) ==
    IF days = <<>> THEN <<>>
    ELSE IF (weekday(Head(days)) = SUNDAY) = keep_sunday
         THEN <<Head(days)>> \o filter_days(Tail(days), keep_sunday)
         ELSE filter_days(Tail(days), keep_sunday)

\* a filter that takes Sunday for day 0 of the week
days_no_sun_from_zero(all_days) ==
    LET RECURSIVE f(_)
        f(days) == IF days = <<>> THEN <<>>
                   ELSE IF weekday(Head(days)) # 0 THEN <<Head(days)>> \o f(Tail(days))
                   ELSE f(Tail(days))
    IN  f(all_days)

\* all_days[all_days.weekday != 6]
days_no_sun(all_days) == filter_days(all_days, FALSE)

\* a count that takes Sunday for day 0 of the week
excluded_sundays_from_zero(all_days) ==
    Cardinality({k \in DOMAIN all_days : weekday(all_days[k]) = 0})

\* int((all_days.weekday == 6).sum())
excluded_sundays(all_days) == Len(filter_days(all_days, TRUE))

\* df["visit_date"].astype(str).value_counts() looked up at one date text, 0 if absent
value_count(df, text) == Cardinality({k \in DOMAIN df : df[k].visit_date = text})

RECURSIVE series_sum(_)
\* daily["count"].sum()
series_sum(series) ==
    IF series = <<>> THEN 0 ELSE Head(series).count + series_sum(Tail(series))

\* make_daily_counts without the test of end_dt < start_dt
make_daily_counts_no_order_check(df, start, end) ==
    IF ~(strptime_ok(start) /\ strptime_ok(end))
    THEN [daily |-> <<>>, msg |-> [kind |-> "bad_format", warning |-> TRUE]]
    ELSE
    LET all_days == date_range(ordinal(start), ordinal(end))
        no_sun == days_no_sun(all_days)
        num_days == Len(no_sun)
        series == [k \in 1..num_days |->
                     [date |-> strftime(no_sun[k]),
                      count |-> value_count(df, strftime(no_sun[k]))]]
    IN  IF num_days = 0
        THEN [daily |-> <<>>, msg |-> [kind |-> "no_days", warning |-> FALSE]]
        ELSE [daily |-> series,
              msg |-> [kind |-> "summary", warning |-> FALSE,
                       excluded_sundays |-> excluded_sundays(all_days),
                       num_days |-> num_days,
                       total |-> series_sum(series),
                       avg |-> [num |-> series_sum(series), den |-> num_days]]]

\* returns (daily, msg): the series of (date, count) and the parts of the message;
\* msg.warning is the warning sign the two refusals start their message with
make_daily_counts(df, start, end) ==
    IF ~(strptime_ok(start) /\ strptime_ok(end))
    THEN [daily |-> <<>>, msg |-> [kind |-> "bad_format", warning |-> TRUE]]
    ELSE IF ordinal(end) < ordinal(start)
    THEN [daily |-> <<>>, msg |-> [kind |-> "end_before_start", warning |-> TRUE]]
    ELSE
    LET all_days == date_range(ordinal(start), ordinal(end))
        no_sun == days_no_sun(all_days)
        num_days == Len(no_sun)
        series == IF df = <<>>
                  THEN [k \in 1..num_days |-> [date |-> strftime(no_sun[k]), count |-> 0]]
                  ELSE [k \in 1..num_days |->
                          [date |-> strftime(no_sun[k]),
                           count |-> value_count(df, strftime(no_sun[k]))]]
        total == IF df = <<>> THEN 0 ELSE series_sum(series)
    IN  IF num_days = 0
        THEN [daily |-> <<>>, msg |-> [kind |-> "no_days", warning |-> FALSE]]
        ELSE [daily |-> series,
              msg |-> [kind |-> "summary", warning |-> FALSE,
                       excluded_sundays |-> excluded_sundays(all_days),
                       num_days |-> num_days,
                       total |-> total,
                       avg |-> [num |-> total, den |-> num_days]]]

----------------------------------------------------------------------------
(* calc_purpose_ratio *)

RECURSIVE explode(_)
\* df["purpose"].str.split(", ").explode(), then temp[temp != ""]
explode(df) ==
    IF df = <<>> THEN <<>>
    ELSE SelectSeqOf(split(Head(df).purpose, <<",", " ">>), <<>>) \o explode(Tail(df))

\* (count / total * 100).round(1), in tenths of a percent; a tie goes to the even digit
percent(count, total) ==
    LET q == (count * 1000) \div total
        r == (count * 1000) % total
    IN  IF 2 * r > total \/ (2 * r = total /\ q % 2 = 1) THEN q + 1 ELSE q

\* the rows (token, count, percent) of the returned frame; their order among equal
\* counts is not fixed by value_counts, so the frame is kept as a set of rows
calc_purpose_ratio(df) ==
    LET temp == explode(df)
        total == Len(temp)
    IN  { [purpose |-> t,
           count |-> Cardinality({k \in DOMAIN temp : temp[k] = t}),
           percent |-> percent(Cardinality({k \in DOMAIN temp : temp[k] = t}), total)]
          : t \in Range(temp) }

----------------------------------------------------------------------------
(* build_checksheet_matrix *)

\* 1 if some item of purpose_str names option k, else 0
purpose_flag(items, k) ==
    IF k = GITA
    THEN IF \E i \in DOMAIN items : startswith(items[i], GITA \o <<":">>) \/ items[i] = GITA
         THEN 1 ELSE 0
    ELSE IF \E i \in DOMAIN items :
               /\ ~(startswith(items[i], GITA \o <<":">>) \/ items[i] = GITA)
               /\ items[i] = k
         THEN 1 ELSE 0

\* the flags of purpose_to_flags in PURPOSE_OPTIONS order
purpose_to_flags(purpose_str) ==
    LET items == purpose_items(strip(purpose_str))
    IN  [k \in DOMAIN PURPOSE_OPTIONS |-> purpose_flag(items, PURPOSE_OPTIONS[k])]

\* [1 if k == value else 0 for k in options]
one_hot(options, value) == [k \in DOMAIN options |-> IF options[k] = value THEN 1 ELSE 0]

sub_headers ==
    <<"yeonbeon">> \o GENDER_OPTIONS \o AGE_OPTIONS \o RESIDENCE_OPTIONS
        \o PURPOSE_OPTIONS \o VISIT_TYPE_OPTIONS

matrix_row(r) ==
    <<r.id>> \o one_hot(GENDER_OPTIONS, r.gender) \o one_hot(AGE_OPTIONS, r.age_group)
        \o one_hot(RESIDENCE_OPTIONS, r.residence) \o purpose_to_flags(r.purpose)
        \o one_hot(VISIT_TYPE_OPTIONS, r.visit_type)

\* a totals loop that assigns where it should add
overwrite_row(sums, row) ==
    [j \in DOMAIN sums |-> IF j = 1 THEN sums[j] ELSE row[j]]

\* for j in range(1, len(sub_headers)): sums[j] += int(row[j])
add_row(sums, row) ==
    [j \in DOMAIN sums |-> IF j = 1 THEN sums[j] ELSE sums[j] + row[j]]

RECURSIVE add_rows(_, _)
\* for row in rows
add_rows(sums, rows) ==
    IF rows = <<>> THEN sums ELSE add_rows(add_row(sums, Head(rows)), Tail(rows))

build_checksheet_matrix(df) ==
    LET rows == [k \in DOMAIN df |-> matrix_row(df[k])]
        zero == [j \in DOMAIN sub_headers |-> IF j = 1 THEN "hapgye" ELSE 0]
    IN  [sub_headers |-> sub_headers, sums |-> add_rows(zero, rows), rows |-> rows]

----------------------------------------------------------------------------
(* The inputs the handlers are driven with *)

Form(gender, age, residence, visit_type) ==
    [gender |-> gender, age |-> age, residence |-> residence, visit_type |-> visit_type]

\* the radio groups of the visitor form: all chosen, or one of them left at None
FormInputs ==
    { Form(GENDER_OPTIONS[1], AGE_OPTIONS[1], RESIDENCE_OPTIONS[1], VISIT_TYPE_OPTIONS[1]),
      Form(None, AGE_OPTIONS[1], RESIDENCE_OPTIONS[1], VISIT_TYPE_OPTIONS[1]),
      Form(GENDER_OPTIONS[1], None, RESIDENCE_OPTIONS[1], VISIT_TYPE_OPTIONS[1]),
      Form(GENDER_OPTIONS[1], AGE_OPTIONS[1], None, VISIT_TYPE_OPTIONS[1]),
      Form(GENDER_OPTIONS[1], AGE_OPTIONS[1], RESIDENCE_OPTIONS[1], None) }
PurposeInputs == { <<>>, << GITA >> }
OtherInputs == { <<>>, << "x", " " >> }
DateInputs == { << " " >> \o TODAY, << "2024", "-", "06", "-", "31" >> }
PasswordInputs == { <<>>, ADMIN_PASSWORD, << " ", "1234" >>, << "0000" >> }
\* what the store answers to the (up to ATTEMPTS) inserts of one submission; a form
\* the validation turns away never reaches the store, so one answer stands for all
OutcomeInputs(f, purposes) ==
    IF None \in { f.gender, f.age, f.residence, f.visit_type } \/ purposes = <<>>
    THEN { [i \in 1..ATTEMPTS |-> "ok"] }
    ELSE [1..ATTEMPTS -> Outcomes]
RecordIdInputs ==
    { [valid |-> FALSE, value |-> NoneId] } \cup
    { [valid |-> TRUE, value |-> n] : n \in 1..(MaxId + 1) }

CodecIdle == [pc |-> "off"]

DailyIdle == [pc |-> "off"]

RatioIdle == [pc |-> "off"]

MatrixIdle == [pc |-> "off"]


RetIdle == [op |-> "none", msg |-> ""]

\* what the other components hold while one component is run on its inputs
AppAtRest ==
    /\ db = init_db /\ ok = FALSE /\ pending_delete_id = NoneId /\ ret = RetIdle
    /\ ever_assigned = {} /\ assigned_since_reset = {}

Init ==
    /\ db = init_db
    /\ ok = FALSE
    /\ pending_delete_id = NoneId
    /\ ret = RetIdle
    /\ ever_assigned = {}
    /\ assigned_since_reset = {}
    /\ codec = CodecIdle
    /\ daily = DailyIdle
    /\ ratio = RatioIdle
    /\ matrix = MatrixIdle

VisitorSubmit ==
    /\ \E f \in FormInputs, purposes \in PurposeInputs, other \in OtherInputs :
       \E outcomes \in OutcomeInputs(f, purposes) :
            visitor_submit(f.gender, f.age, f.residence, purposes, f.visit_type, other,
                           outcomes)
    /\ UNCHANGED pureVars

DoLogin ==
    /\ \E p \in PasswordInputs : do_login(p)
    /\ UNCHANGED pureVars

AdminUpdateOne ==
    /\ \E record_id \in RecordIdInputs, visit_date \in DateInputs,
          purposes \in PurposeInputs, other \in OtherInputs :
            admin_update_one(record_id, visit_date, GENDER_OPTIONS[1], AGE_OPTIONS[1],
                             RESIDENCE_OPTIONS[1], purposes, VISIT_TYPE_OPTIONS[1], other)
    /\ UNCHANGED pureVars

RequestDelete ==
    /\ \E record_id \in RecordIdInputs : request_delete(record_id)
    /\ UNCHANGED pureVars

ConfirmDelete ==
    /\ confirm_delete
    /\ UNCHANGED pureVars

AdminResetAll ==
    /\ \E pw1 \in PasswordInputs, pw2 \in PasswordInputs : admin_reset_all(pw1, pw2)
    /\ UNCHANGED pureVars

Next ==
    \/ VisitorSubmit
    \/ DoLogin
    \/ AdminUpdateOne
    \/ RequestDelete
    \/ ConfirmDelete
    \/ AdminResetAll

Spec == Init /\ [][Next]_vars

----------------------------------------------------------------------------
(* Inputs of the codec *)

\* the tags of T in PURPOSE_OPTIONS order, as the checkbox group hands them over
SeqOfSet(T) ==
    LET RECURSIVE pick(_)
        pick(i) == IF i > Len(PURPOSE_OPTIONS) THEN <<>>
                   ELSE IF PURPOSE_OPTIONS[i] \in T
                        THEN <<PURPOSE_OPTIONS[i]>> \o pick(i + 1)
                        ELSE pick(i + 1)
    IN  pick(1)

OtherTexts ==
    { <<>>, <<"x">>, <<" ">>, <<" ", "x", " ">>, <<"x", ",", "y">>, <<"x", ",", " ", "study">> }

CodecInit ==
    \E T \in (SUBSET Range(PURPOSE_OPTIONS)) \ {{}} :
    \E t \in OtherTexts :
        /\ (t # <<>> => GITA \in T)
        /\ codec = [pc |-> "input", purposes |-> SeqOfSet(T), other |-> t]
        /\ AppAtRest
        /\ daily = DailyIdle /\ ratio = RatioIdle /\ matrix = MatrixIdle

CodecEncode ==
    /\ codec.pc = "input"
    /\ codec' = [pc |-> "encoded", purposes |-> codec.purposes, other |-> codec.other,
                 purpose_str |-> encodePurpose(codec.purposes, strip(codec.other))]
    /\ UNCHANGED <<appVars, daily, ratio, matrix>>

CodecDecode ==
    /\ codec.pc = "encoded"
    /\ codec' = [pc |-> "decoded", purposes |-> codec.purposes, other |-> codec.other,
                 purpose_str |-> codec.purpose_str,
                 out |-> decodePurpose(codec.purpose_str)]
    /\ UNCHANGED <<appVars, daily, ratio, matrix>>

CodecNext == CodecEncode \/ CodecDecode

SpecCodec == CodecInit /\ [][CodecNext]_vars

----------------------------------------------------------------------------
(* make_daily_counts on one row set and one pair of date texts *)

MaxDailyRows == 2

\* the date texts typed as start and end, and found in visit_date
DateTexts ==
    { << "2024", "-", "05", "-", "30" >>,
      << "2024", "-", "06", "-", "01" >>,
      << "2024", "-", "06", "-", "02" >>,      \* a Sunday
      << "2024", "-", "06", "-", "03" >>,
      << "2024", "-", "06", "-", "09" >>,      \* a Sunday
      << "2024", "-", "06", "-", "10" >>,
      << "2024", "-", "6", "-", "3" >>,        \* strptime reads it as 2024-06-03
      << "2024", "-", "06", "-", "31" >>,      \* no such day
      << " ", "2024", "-", "06", "-", "03" >> }

VisitDates ==
    { << "2024", "-", "06", "-", "01" >>,
      << "2024", "-", "06", "-", "02" >>,
      << "2024", "-", "06", "-", "03" >>,
      << "2024", "-", "6", "-", "3" >> }

DailyRow(visit_date) ==
    Record(visit_date, GENDER_OPTIONS[1], AGE_OPTIONS[1], RESIDENCE_OPTIONS[1], GITA,
           VISIT_TYPE_OPTIONS[1])

SeqsUpTo(S, n) == UNION { [1..k -> S] : k \in 0..n }

DailyInit ==
    \E dates \in SeqsUpTo(VisitDates, MaxDailyRows), start \in DateTexts, end \in DateTexts :
        /\ daily = [pc |-> "input",
                    df |-> [k \in DOMAIN dates |-> DailyRow(dates[k])],
                    start |-> start, end |-> end]
        /\ AppAtRest
        /\ codec = CodecIdle /\ ratio = RatioIdle /\ matrix = MatrixIdle

MakeDailyCounts ==
    /\ daily.pc = "input"
    /\ daily' = [pc |-> "done", df |-> daily.df, start |-> daily.start, end |-> daily.end,
                 out |-> make_daily_counts(daily.df, daily.start, daily.end)]
    /\ UNCHANGED <<appVars, codec, ratio, matrix>>

DailyNext == MakeDailyCounts

SpecDaily == DailyInit /\ [][DailyNext]_vars

ValidRange(d) == strptime_ok(d.start) /\ strptime_ok(d.end) /\ ordinal(d.start) <= ordinal(d.end)

CalendarDays(d) == ordinal(d.end) - ordinal(d.start) + 1

IncludedDays(d) == {o \in ordinal(d.start)..ordinal(d.end) : weekday(o) # 6}

RECURSIVE SumCounts(_)
SumCounts(series) == IF series = <<>> THEN 0 ELSE series[1].count + SumCounts(Tail(series))

(* C7 as stated: for every valid range make_daily_counts reports a total   *)
(* equal to the sum of the series counts, and an included-day count and an *)
(* excluded-day count that add up to the calendar days of the range.       *)
C7_TotalsEveryValidRange ==
    (daily.pc = "done" /\ ValidRange(daily)) =>
        /\ daily.out.msg.kind = "summary"
        /\ daily.out.msg.total = SumCounts(daily.out.daily)
        /\ daily.out.msg.num_days + daily.out.msg.excluded_sundays = CalendarDays(daily)

(* C7 as amended: the same for every valid range that holds a day other    *)
(* than a Sunday; for a valid range of Sundays only the series is empty    *)
(* and the message reports no counts.                                       *)
C7_TotalsWithIncludedDay ==
    (daily.pc = "done" /\ ValidRange(daily)) =>
        IF IncludedDays(daily) = {}
        THEN daily.out.daily = <<>> /\ daily.out.msg.kind = "no_days"
        ELSE /\ daily.out.msg.kind = "summary"
             /\ daily.out.msg.total = SumCounts(daily.out.daily)
             /\ daily.out.msg.num_days + daily.out.msg.excluded_sundays
                    = CalendarDays(daily)

\* a range over two Sundays whose rows fall on a Sunday and on counted days
C7_Witness ==
    /\ daily.pc = "done" /\ ValidRange(daily)
    /\ daily.out.msg.kind = "summary"
    /\ daily.out.msg.excluded_sundays = 2
    /\ daily.out.msg.total = 1
    /\ Len(daily.df) = 2

(* C8: for every valid range the series lists the dates of the range that  *)
(* are not Sundays, each once and in date order, each with the number of   *)
(* rows whose visit_date is that date (0 when none), and nothing else;     *)
(* with an empty row set and with a non-empty one.                         *)
C8_CalendarComplete ==
    (daily.pc = "done" /\ ValidRange(daily)) =>
        LET series == daily.out.daily
        IN  /\ Len(series) = Cardinality(IncludedDays(daily))
            /\ \A k \in DOMAIN series :
                  \E o \in IncludedDays(daily) :
                     /\ series[k].date = strftime(o)
                     /\ series[k].count =
                          Cardinality({r \in DOMAIN daily.df :
                                          daily.df[r].visit_date = strftime(o)})
            /\ \A k \in 1..(Len(series) - 1) :
                  ordinal(series[k].date) < ordinal(series[k + 1].date)

\* a series with a counted day, a day of no rows and a Sunday left out
C8_Witness ==
    /\ daily.pc = "done" /\ ValidRange(daily)
    /\ daily.df # <<>>
    /\ CalendarDays(daily) > Len(daily.out.daily)
    /\ \E k \in DOMAIN daily.out.daily : daily.out.daily[k].count = 2
    /\ \E k \in DOMAIN daily.out.daily : daily.out.daily[k].count = 0

(* C11: make_daily_counts refuses, with an empty series and a warning   *)
(* message, a start or end text that strptime does not read as a date,     *)
(* and a range whose end is before its start; a readable range with no    *)
(* day other than a Sunday is not refused: it gives an empty series and a  *)
(* message, without the warning sign, saying there is no day to compute;   *)
(* and no other range is refused.                                          *)
C11_InvalidRangeRefused ==
    (daily.pc = "done") =>
        LET parsed == strptime_ok(daily.start) /\ strptime_ok(daily.end)
            out == daily.out
        IN  /\ ~parsed =>
                  out.daily = <<>> /\ out.msg.kind = "bad_format" /\ out.msg.warning
            /\ (parsed /\ ordinal(daily.end) < ordinal(daily.start)) =>
                  out.daily = <<>> /\ out.msg.kind = "end_before_start" /\ out.msg.warning
            /\ (ValidRange(daily) /\ IncludedDays(daily) = {}) =>
                  out.daily = <<>> /\ out.msg.kind = "no_days" /\ ~out.msg.warning
            /\ ValidRange(daily) => ~out.msg.warning

\* a range of two readable dates, the end before the start, over stored rows
C11_Witness ==
    /\ daily.pc = "done"
    /\ strptime_ok(daily.start) /\ strptime_ok(daily.end)
    /\ ordinal(daily.end) < ordinal(daily.start)
    /\ daily.df # <<>>
    /\ daily.out.msg.kind = "end_before_start"

----------------------------------------------------------------------------
(* calc_purpose_ratio on rows whose purpose the encoder wrote *)

MaxRatioRows == 2

Selection(purposes, other) == [purposes |-> purposes, other |-> other]

\* one or two tags, with a text only where "gita" is among them
Selections ==
    { sel \in { Selection(SeqOfSet(T), t) :
                    T \in { U \in SUBSET Range(PURPOSE_OPTIONS) : Cardinality(U) \in 1..2 },
                    t \in { <<>>, <<"x">> } } :
        sel.other # <<>> => GITA \in Range(sel.purposes) }

\* the stored row of a selection; id is its place in the frame
EncodedRow(sel, id, gender, visit_type) ==
    [id |-> id, visit_date |-> TODAY, gender |-> gender, age_group |-> AGE_OPTIONS[2],
     residence |-> RESIDENCE_OPTIONS[4],
     purpose |-> encodePurpose(sel.purposes, strip(sel.other)), visit_type |-> visit_type]

RatioInit ==
    \E sels \in SeqsUpTo(Selections, MaxRatioRows) :
        /\ ratio = [pc |-> "input", sels |-> sels,
                    df |-> [k \in DOMAIN sels |->
                              EncodedRow(sels[k], k, GENDER_OPTIONS[1], VISIT_TYPE_OPTIONS[1])]]
        /\ AppAtRest
        /\ codec = CodecIdle /\ daily = DailyIdle /\ matrix = MatrixIdle

CalcPurposeRatio ==
    /\ ratio.pc = "input"
    /\ ratio' = [pc |-> "done", sels |-> ratio.sels, df |-> ratio.df,
                 out |-> calc_purpose_ratio(ratio.df)]
    /\ UNCHANGED <<appVars, codec, daily, matrix>>

RatioNext == CalcPurposeRatio

SpecRatio == RatioInit /\ [][RatioNext]_vars

RECURSIVE TagInstances(_)
TagInstances(sels) ==
    IF sels = <<>> THEN 0 ELSE Len(Head(sels).purposes) + TagInstances(Tail(sels))

RECURSIVE SumOfCounts(_)
SumOfCounts(table) ==
    IF table = {} THEN 0
    ELSE LET e == CHOOSE x \in table : TRUE IN e.count + SumOfCounts(table \ {e})

\* the rows of the frame that stand for tag k ("gita" with or without a text)
RowsOfTag(table, k) ==
    { e \in table : e.purpose = k \/ (k = GITA /\ startswith(e.purpose, GITA \o <<":">>)) }

(* C9: for rows written by the encoder, calc_purpose_ratio counts every    *)
(* selected tag of every row once under that tag, so that the counts add   *)
(* up to the number of selected tags over all rows.                        *)
C9_OneUnitPerTag ==
    ratio.pc = "done" =>
        /\ SumOfCounts(ratio.out) = TagInstances(ratio.sels)
        /\ \A k \in Range(PURPOSE_OPTIONS) :
              SumOfCounts(RowsOfTag(ratio.out, k))
                = Cardinality({r \in DOMAIN ratio.sels : k \in Range(ratio.sels[r].purposes)})

----------------------------------------------------------------------------
(* build_checksheet_matrix on rows whose purpose the encoder wrote *)

MaxMatrixRows == 2

MatrixSelections ==
    { Selection(<< <<"study">> >>, <<>>),
      Selection(<< <<"study">>, GITA >>, << "x" >>),
      Selection(<< PURPOSE_OPTIONS[4] >>, <<>>),
      Selection(<< GITA >>, <<>>) }

\* a stored gender of NULL reads as str(None)
MatrixEntries ==
    { [sel |-> sel, gender |-> g, visit_type |-> v] :
        sel \in MatrixSelections, g \in { GENDER_OPTIONS[1], None },
        v \in { VISIT_TYPE_OPTIONS[1], VISIT_TYPE_OPTIONS[2] } }

MatrixInit ==
    \E es \in SeqsUpTo(MatrixEntries, MaxMatrixRows) :
        /\ matrix = [pc |-> "input", sels |-> [k \in DOMAIN es |-> es[k].sel],
                     df |-> [k \in DOMAIN es |->
                               EncodedRow(es[k].sel, k, es[k].gender, es[k].visit_type)]]
        /\ AppAtRest
        /\ codec = CodecIdle /\ daily = DailyIdle /\ ratio = RatioIdle

BuildChecksheetMatrix ==
    /\ matrix.pc = "input"
    /\ matrix' = [pc |-> "done", sels |-> matrix.sels, df |-> matrix.df,
                  out |-> build_checksheet_matrix(matrix.df)]
    /\ UNCHANGED <<appVars, codec, daily, ratio>>

MatrixNext == BuildChecksheetMatrix

SpecMatrix == MatrixInit /\ [][MatrixNext]_vars

(* C10: every flag column of the totals row is the sum of that column over *)
(* the data rows (the number of rows flagged there), for the empty row set *)
(* too, and the id column of the totals row holds the total marker.        *)
C10_TotalsRow ==
    matrix.pc = "done" =>
        LET out == matrix.out
        IN  /\ Len(out.sums) = Len(out.sub_headers)
            /\ Len(out.rows) = Len(matrix.df)
            /\ out.sums[1] = "hapgye"
            /\ \A j \in 2..Len(out.sums) :
                  /\ \A r \in DOMAIN out.rows : out.rows[r][j] \in {0, 1}
                  /\ out.sums[j] = Cardinality({r \in DOMAIN out.rows : out.rows[r][j] = 1})

\* two data rows that share one flag and differ in another
C10_Witness ==
    /\ matrix.pc = "done"
    /\ Len(matrix.out.rows) = 2
    /\ \E j \in 2..Len(matrix.out.sums) : matrix.out.sums[j] = 2
    /\ \E j \in 2..Len(matrix.out.sums) : matrix.out.sums[j] = 1

\* the column of sub_headers where the purpose block starts, less one
PurposeOffset == 1 + Len(GENDER_OPTIONS) + Len(AGE_OPTIONS) + Len(RESIDENCE_OPTIONS)

(* C13: in every data row of the matrix the purpose column of tag k holds  *)
(* 1 when k is among the tags the row's purpose was encoded from and 0     *)
(* when it is not, the "gita" column holding 1 with a text and without.    *)
C13_PurposeBlock ==
    matrix.pc = "done" =>
        \A r \in DOMAIN matrix.out.rows : \A k \in DOMAIN PURPOSE_OPTIONS :
            matrix.out.rows[r][PurposeOffset + k] =
                (IF PURPOSE_OPTIONS[k] \in Range(matrix.sels[r].purposes) THEN 1 ELSE 0)

----------------------------------------------------------------------------
(* C2 as stated: an insert never assigns an id that any earlier record    *)
(* had, records from before a full reset included.                         *)
C2_NeverReusedEvenAfterReset ==
    [][\A i \in NewIds(db, db') : i \notin ever_assigned]_vars

(* C2 as amended: an insert assigns an id larger than every id assigned    *)
(* since the last full reset (deleted records included); a full reset      *)
(* restarts the sequence.                                                   *)
C2_NoReuseSinceReset ==
    [][\A i \in NewIds(db, db') : \A j \in assigned_since_reset : i > j]_vars

\* an insert that took id 2 after record 1 had been deleted
C2_Witness ==
    /\ ret.op = "visitor_submit" /\ ret.msg = ""
    /\ DOMAIN db.visits = {2}
    /\ assigned_since_reset = {1, 2}

(* C3: a full reset leaves the store empty, and the first insert after it  *)
(* creates the record with id 1, whatever was inserted and deleted before. *)
C3_ResetRestartsAtOne ==
    [][/\ (ret'.op = "admin_reset_all" /\ ret'.msg = "reset_done")
            => db'.visits = EmptyTable
       /\ (assigned_since_reset = {} /\ NewIds(db, db') # {})
            => (NewIds(db, db') = {1} /\ DOMAIN db'.visits = {1})]_vars

\* the insert after a reset that followed two inserts
C3_Witness ==
    /\ ret.op = "visitor_submit" /\ ret.msg = ""
    /\ DOMAIN db.visits = {1}
    /\ assigned_since_reset = {1}
    /\ ever_assigned = {1, 2}

(* C4: update_visit and delete_visit of an id that is not in the store     *)
(* affect 0 rows and leave the store as it was, and admin_update_one and   *)
(* confirm_delete answer with a warning.                                   *)
C4_MissingIdIsNoOp ==
    [][/\ (ret'.op = "admin_update_one" /\ ret'.called /\ ret'.rid \notin DOMAIN db.visits)
            => (ret'.rowcount = 0 /\ db' = db /\ ret'.msg = "warn_update_failed")
       /\ (ret'.op = "confirm_delete" /\ ret'.called /\ ret'.rid \notin DOMAIN db.visits)
            => (ret'.rowcount = 0 /\ db' = db /\ ret'.msg = "warn_delete_failed")]_vars

\* an update of a missing id while the store holds other records
C4_Witness ==
    /\ ret.op = "admin_update_one" /\ ret.called /\ ret.rowcount = 0
    /\ ret.rid \notin DOMAIN db.visits
    /\ DOMAIN db.visits # {}

(* C5: visitor_submit calls insert_visit at most ATTEMPTS times, goes on   *)
(* to another attempt only after a "locked" failure, reports an error right *)
(* after any other failure and after the third "locked" one, and inserts    *)
(* exactly one record when it reports none and no record otherwise.         *)
C5_BoundedRetry ==
    [][ret'.op = "visitor_submit" =>
         LET t == ret'.trace
             n == Len(t)
         IN  /\ n <= ATTEMPTS
             /\ \A k \in 1..(n - 1) : t[k] = "locked"
             /\ (ret'.msg = "warn") = (n = 0)
             /\ (ret'.msg = "") = (n > 0 /\ t[n] = "ok")
             /\ (ret'.msg = "err") = (n > 0 /\ t[n] # "ok")
             /\ Cardinality(NewIds(db, db')) = (IF ret'.msg = "" THEN 1 ELSE 0)
             /\ \A i \in DOMAIN db.visits :
                    i \in DOMAIN db'.visits /\ db'.visits[i] = db.visits[i]
             /\ ret'.msg # "" => db' = db]_vars

\* three "locked" failures in a row, reported as an error
C5_Witness ==
    /\ ret.op = "visitor_submit"
    /\ ret.trace = << "locked", "locked", "locked" >>
    /\ ret.msg = "err"

(* C6: every stored record has a non-empty purpose, and a submission or an *)
(* update turned away for its empty purpose selection leaves the store as  *)
(* it was.                                                                  *)
C6_PurposeNeverEmpty ==
    [][/\ \A i \in DOMAIN db'.visits : db'.visits[i].purpose # <<>>
       /\ (ret'.op = "visitor_submit" /\ ret'.notice = "purposes")
            => (ret'.msg = "warn" /\ db' = db)
       /\ (ret'.op = "admin_update_one" /\ ret'.msg = "no_purpose") => db' = db]_vars

\* an update with no purpose selected, turned away while the store holds records
C6_Witness ==
    /\ ret.op = "admin_update_one" /\ ret.msg = "no_purpose"
    /\ \E i \in DOMAIN db.visits : db.visits[i].purpose = GITA

(* C12: a step that takes records out of the store is either the full      *)
(* reset or a confirm_delete called while logged in with a pending id, and *)
(* it takes out that id's record only; the pending id is set only by a     *)
(* request_delete called while logged in for an id it finds in the store,  *)
(* and no other handler than the two changes it; confirm_delete called     *)
(* without login or without a pending id leaves the store as it was; and   *)
(* every confirm_delete leaves no pending id.                              *)
C12_ConfirmedDelete ==
    [][LET removed == DOMAIN db.visits \ DOMAIN db'.visits
           reset == ret'.op = "admin_reset_all" /\ ret'.msg = "reset_done"
       IN  /\ (removed # {} /\ ~reset) =>
                 /\ ret'.op = "confirm_delete"
                 /\ ok /\ pending_delete_id # NoneId
                 /\ removed = {pending_delete_id}
                 /\ DOMAIN db'.visits = DOMAIN db.visits \ removed
                 /\ \A i \in DOMAIN db'.visits : db'.visits[i] = db.visits[i]
           /\ (pending_delete_id' # NoneId /\ ret'.op = "request_delete") =>
                 ok /\ pending_delete_id' \in DOMAIN db.visits
           /\ (pending_delete_id' # pending_delete_id) =>
                 ret'.op \in {"request_delete", "confirm_delete"}
           /\ (ret'.op = "confirm_delete" /\ (~ok \/ pending_delete_id = NoneId)) =>
                 db' = db /\ ~ret'.called
           /\ (ret'.op = "confirm_delete") => pending_delete_id' = NoneId]_vars

\* a confirmed delete of one record out of two: the other stays, nothing is pending
C12_Witness ==
    /\ ret.op = "confirm_delete" /\ ret.msg = "deleted" /\ ok
    /\ pending_delete_id = NoneId
    /\ ret.rid \notin DOMAIN db.visits
    /\ DOMAIN db.visits # {}

(* C1: decoding the encoded purpose recovers the selected tags (as a set)  *)
(* and the other-text (as the handlers keep it: trimmed), for every        *)
(* non-empty selection whose other-text is non-empty only with "gita".     *)
C1_RoundTrip ==
    codec.pc = "decoded" =>
        /\ Range(codec.out.purposes) = Range(codec.purposes)
        /\ codec.out.other_text = strip(codec.other)

====
